---- MODULE Spec2Model ----
(***************************************************************************)
(* Model of the DSDA driver of dsda_gdp_reactor.py: the k=2 neighbourhood  *)
(* generator, the neighbour filter my_neighbors, the EXPLORE scan          *)
(* evaluate_neighbors, the LINE-SEARCH step move_and_evaluate and the      *)
(* driver loop dsda.  The subproblem solver fnlp_gdp is an external        *)
(* collaborator: each call returns a nondeterministic solver status and    *)
(* objective value.  Objective values are integers counted in units of     *)
(* 0.000005, so that the tolerance 0.00001 of the code is 2 units and two  *)
(* objectives can differ by less than the tolerance.                       *)
(***************************************************************************)
EXTENDS Integers, Sequences, FiniteSets, TLC

\* ------------------------------------------------------------------ bounds
\* my_neighbors on its own: largest number of external variables
MaxArgDim == 3
\* my_neighbors on its own: upper bound of every external variable
MaxCoord == 3
\* dsda for several NT: the smallest and the largest NT
MinNT == 3
MaxNT == 6
\* reformulation: number of elements of the Set k
NK == 3
\* reformulation: number of elements of the Set j
NJ == 2
\* reformulation: largest exactly_number of a constraint
MaxExactly == 2
\* Largest objective value (in units of 0.000005) the solver may report.
MaxObj == 6
\* Largest dimension for which neighborhood_k_eq_2 is run on its own.
MaxDim == 5

\* ------------------------------------------------------- program constants
\* NT = 5 in __main__: units of the superstructure.
NT == 5
\* tol=0.00001 of evaluate_neighbors and move_and_evaluate, in units of 0.000005.
Tol == 2
\* min_allowed={1:1, 2:1}, max_allowed={1:5, 2:5} passed by dsda.
min_allowed == <<1, 1>>
max_allowed == <<5, 5>>

Vals == 0..MaxObj
\* pyomo SolverStatus values the solver adapter may return.
Statuses == {"ok", "warning", "error"}
\* What one solve returns to evaluate_neighbors and move_and_evaluate: the status
\* and, read only under status ok, the objective value (-1: never evaluated).
Outcomes == {[status |-> "ok", obj |-> v] : v \in Vals}
            \cup {[status |-> s, obj |-> -1] : s \in Statuses \ {"ok"}}

VARIABLES
    pc,         \* position of dsda: "start","explore","evaluate","scan","line","done","crashed"
    ext_var,    \* dsda: the incumbent handed to the next EXPLORE scan
    route,      \* dsda: route
    fmin,       \* dsda / evaluate_neighbors / move_and_evaluate: fmin
    init,       \* dsda: init, the warm-start passed to evaluate_neighbors
    neighbors,  \* dsda: neighbors, the dict returned by my_neighbors
    todo,       \* evaluate_neighbors: keys of temp still to be iterated
    best_var,   \* best_var
    best_dir,   \* best_dir
    best_init,  \* best_init
    improve,    \* improve
    last_call,  \* observation: the call of fnlp_gdp made by the latest step, if any
    evaluated,  \* observation: keys solved in the current EXPLORE scan
    scan_min,   \* observation: least objective of an ok neighbour in the scan, -1 if none
    fmin_hist,  \* observation: fmin at the time each route entry was recorded
    k2_pc,      \* neighborhood_k_eq_2 run: "idle","outer","inner","done"
    k2_n,       \* num_ext
    k2_i,       \* i
    k2_j,       \* j
    directions  \* directions

VARIABLES
    nt_arg,     \* the argument NT of dsda (never changes in a run)
    scan_trace, \* observation switch: scan_objs is recorded (never changes in a run)
    scan_objs   \* observation: objective of every ok neighbour of the current scan, by key

VARIABLES
    mn_pc,      \* my_neighbors run on its own: "idle","input","done"
    mn_args,    \* its arguments: start, optimize, min_allowed, max_allowed, cheating
    mn_out      \* the dict it returns

VARIABLES
    ref_pc,               \* position in get_external_information / external_ref
    Ext_Ref,              \* the dict {BooleanVar family: reference Set}, in insertion order
    lcons,                \* the LogicalConstraints of m with an exactly body, in model order
    ref_index,            \* ref_index, by position of the family in Ext_Ref
    no_ref_index,         \* no_ref_index, by position of the family in Ext_Ref
    bstate,               \* every BooleanVar of m: "free", or fixed to "True"/"False"/"None"
    reformulation_dict,   \* reformulation_dict (key count = position)
    number_of_external_variables,
    lower_bounds,
    upper_bounds,
    x_ext,                \* the argument x of external_ref
    logic_expr            \* the argument logic_expr of external_ref

VARIABLES
    fx_pc,               \* the indicator fixing of fnlp_gdp: "idle","loop","fixed"
    fx_NT,               \* its argument NT
    fx_x,                \* its argument x
    fx_n,                \* the n of "for n in m.N"
    YF,                  \* m.YF[n], for the n fixed so far
    YR_is_recycle,       \* m.YR_is_recycle[n].indicator_var, for the n fixed so far
    YR_is_not_recycle,   \* m.YR_is_not_recycle[n].indicator_var
    YP_is_cstr,          \* m.YP_is_cstr[n].indicator_var
    YP_is_bypass         \* m.YP_is_bypass[n].indicator_var

VARIABLES
    col_pc,              \* the indicator fixing of build_column: "idle","input","loop","done"
    max_trays,           \* its argument max_trays
    feed_tray,           \* m.feed_tray
    x_input,             \* its argument x_input
    YR_fixed,            \* YR_fixed
    YB_fixed,            \* YB_fixed
    col_n,               \* the n of the second "for n in m.trays - [...]"
    tray,                \* m.tray[t].indicator_var: "free", "True" or "False"
    no_tray              \* m.no_tray[t].indicator_var

dsda_vars == <<pc, ext_var, route, fmin, init, neighbors, todo,
               best_var, best_dir, best_init, improve, last_call,
               evaluated, scan_min, fmin_hist, scan_objs>>
k2_vars == <<k2_pc, k2_n, k2_i, k2_j, directions>>
mn_vars == <<mn_pc, mn_args, mn_out>>
ref_vars == <<ref_pc, Ext_Ref, lcons, ref_index, no_ref_index, bstate, reformulation_dict,
              number_of_external_variables, lower_bounds, upper_bounds,
              x_ext, logic_expr>>
\* what neither dsda nor neighborhood_k_eq_2 touches
fix_vars == <<fx_pc, fx_NT, fx_x, fx_n, YF, YR_is_recycle, YR_is_not_recycle,
              YP_is_cstr, YP_is_bypass>>
col_vars == <<col_pc, max_trays, feed_tray, x_input, YR_fixed, YB_fixed, col_n,
              tray, no_tray>>
other_vars == <<nt_arg, scan_trace, mn_vars, ref_vars, fix_vars, col_vars>>
vars == <<dsda_vars, k2_vars, other_vars>>

\* ------------------------------------------------------------- helpers
Min2(a, b) == IF a <= b THEN a ELSE b

\* list(map(sum, zip(a, b)))
\* the difference in place of the sum
VecSub(a, b) == [j \in 1..Min2(Len(a), Len(b)) |-> a[j] - b[j]]

\* list(map(sum, zip(a, b)))
VecAdd(a, b) == [j \in 1..Min2(Len(a), Len(b)) |-> a[j] + b[j]]

Last(s) == s[Len(s)]

\* keys of a dict in insertion order; every dict of the driver is built in
\* ascending key order
RECURSIVE SortedKeys(_)
SortedKeys(S) ==
    IF S = {} THEN <<>>
    ELSE LET m == CHOOSE x \in S : \A y \in S : x <= y
         IN <<m>> \o SortedKeys(S \ {m})

\* the warm-start of a call without one (provide_init=False, init={}), and the
\* value of a warm-start variable not assigned yet
None == [x |-> <<>>]

\* ------------------------------------------------ neighborhood_k_eq_2
\* np.eye(n)[j, i], 0-based
Eye(n, j, i) == IF i = j THEN 1 ELSE 0

\* the same matrix with the second block not negated
K2MatrixNoNeg(n, j, i) == IF i < n THEN Eye(n, j, i) ELSE Eye(n, j, i - n)

\* np.concatenate((np.eye(n), -np.eye(n)), axis=1)[j, i], 0-based
K2Matrix(n, j, i) == IF i < n THEN Eye(n, j, i) ELSE 0 - Eye(n, j, i - n)

\* the dict returned by neighborhood_k_eq_2(num_ext)
neighborhood_k_eq_2(num_ext) ==
    [i \in 1..(2 * num_ext) |-> [j \in 1..num_ext |-> K2Matrix(num_ext, j - 1, i - 1)]]

\* ------------------------------------------------------- my_neighbors
\* the bound test with the upper bound forgotten
WithinLowerBounds(v, mn, mx) == \A j \in 1..Len(v) : v[j] >= mn[j]

\* the bound test of one vector (my_neighbors and move_and_evaluate)
WithinBounds(v, mn, mx) == \A j \in 1..Len(v) : v[j] >= mn[j] /\ v[j] <= mx[j]

\* the cheating test with >= in place of >
CheatDropGeq(v) == v[2] - v[1] >= 0

\* the cheating test reading the last coordinate in place of the second
CheatDropLast(v) == v[Len(v)] - v[1] > 0

\* the cheating test: the vector is removed when it holds
CheatDrop(v) == v[2] - v[1] > 0

my_neighbors(start, neighborhood, optimize, mn, mx, cheating) ==
    LET all == [i \in {0} \cup DOMAIN neighborhood |->
                    IF i = 0 THEN start ELSE VecAdd(start, neighborhood[i])]
        inb == {i \in DOMAIN all : WithinBounds(all[i], mn, mx)}
        kept == IF cheating THEN {i \in inb : ~CheatDrop(all[i])} ELSE inb
    IN IF optimize THEN [i \in kept |-> all[i]] ELSE all

\* ----------------------------------------------------------- fnlp_gdp
\* a status test that lets a warning through
StatusNotError(status) == status # "error"

\* a status test that lets every status through
StatusAny(status) == TRUE

\* status == pe.SolverStatus.ok
StatusOk(status) == status = "ok"

\* the improvement test without the tolerance
ImprovesNoTol(act_obj, f) == act_obj < f

\* the improvement test with the comparison turned round
ImprovesFlipped(act_obj, f) == f + Tol < act_obj

\* the comparison letting an equal objective through
ImprovesOrEqual(act_obj, f) == act_obj <= f

\* act_obj + tol < fmin
Improves(act_obj, f) == act_obj + Tol < f

\* the warm-start dictionary returned by the solve of x
WarmStart(x) == [x |-> x]

\* external_init(NT): any integer point of 1..NT x 1..NT with ext_var_2 - ext_var_1 <= 0
external_init(n) == {x \in [1..2 -> 1..n] : x[2] - x[1] <= 0}

\* an append that puts the new entry in front
route_prepend(r, v) == <<v>> \o r

\* route.append(v)
route_append(r, v) == Append(r, v)

\* the outcome of one call of fnlp_gdp as the callers observe it
Call(x, by, ws, status, obj, compared) ==
    [x |-> x, by |-> by, ws |-> ws, status |-> status, obj |-> obj, compared |-> compared]

NoCall == Call(<<>>, "none", None, "none", 0, FALSE)

\* my_neighbors is not running on its own
MnIdle ==
    /\ mn_pc = "idle"
    /\ mn_args = <<>>
    /\ mn_out = <<>>

\* the indicator fixing of fnlp_gdp is not running
FixIdle ==
    /\ fx_pc = "idle"
    /\ fx_NT = 0
    /\ fx_x = <<>>
    /\ fx_n = 0
    /\ YF = <<>>
    /\ YR_is_recycle = <<>>
    /\ YR_is_not_recycle = <<>>
    /\ YP_is_cstr = <<>>
    /\ YP_is_bypass = <<>>

\* the indicator fixing of build_column is not running
ColIdle ==
    /\ col_pc = "idle"
    /\ max_trays = 0
    /\ feed_tray = 0
    /\ x_input = <<>>
    /\ YR_fixed = <<>>
    /\ YB_fixed = <<>>
    /\ col_n = 0
    /\ tray = <<>>
    /\ no_tray = <<>>

\* logic_expr=None, the default of external_ref
NoLogicExpr == [given |-> FALSE, list |-> <<>>]

\* the reformulation functions are not running
RefIdle ==
    /\ ref_pc = "idle"
    /\ Ext_Ref = <<>>
    /\ lcons = <<>>
    /\ ref_index = <<>>
    /\ no_ref_index = <<>>
    /\ bstate = <<>>
    /\ reformulation_dict = <<>>
    /\ number_of_external_variables = 0
    /\ lower_bounds = <<>>
    /\ upper_bounds = <<>>
    /\ x_ext = <<>>
    /\ logic_expr = NoLogicExpr

\* ---------------------------------------------------------------- dsda
\* the state before dsda runs
Init ==
    /\ pc = "start"
    /\ ext_var = <<>>
    /\ route = <<>>
    /\ fmin = 0
    /\ init = None
    /\ neighbors = <<>>
    /\ todo = <<>>
    /\ best_var = <<>>
    /\ best_dir = 0
    /\ best_init = None
    /\ improve = FALSE
    /\ last_call = NoCall
    /\ evaluated = {}
    /\ scan_min = -1
    /\ fmin_hist = <<>>
    /\ scan_objs = <<>>
    /\ scan_trace = FALSE
    /\ nt_arg = NT
    /\ MnIdle
    /\ FixIdle
    /\ ColIdle
    /\ RefIdle
    /\ k2_pc = "idle"
    /\ k2_n = 0
    /\ k2_i = 0
    /\ k2_j = 0
    /\ directions = <<>>

\* route = []; ext_var = external_init(NT); route.append(ext_var);
\* m, _, init = fnlp_gdp(NT, ext_var); fmin = pe.value(m.obj)
Dsda_Init ==
    /\ pc = "start"
    /\ \E x \in external_init(nt_arg), status \in Statuses, obj \in Vals :
          /\ ext_var' = x
          /\ route' = route_append(<<>>, x)
          /\ init' = WarmStart(x)
          /\ fmin' = obj
          /\ last_call' = Call(x, "init", None, status, obj, FALSE)
          /\ fmin_hist' = <<obj>>
    /\ pc' = "explore"
    /\ UNCHANGED <<neighbors, todo, best_var, best_dir, best_init, improve,
                   evaluated, scan_min, k2_vars, other_vars, scan_objs>>

\* neighbors = my_neighbors(ext_var, neighborhood, optimize=True, ..., cheating=True)
Dsda_MyNeighbors ==
    /\ pc = "explore"
    /\ neighbors' = my_neighbors(ext_var, neighborhood_k_eq_2(Len(ext_var)), TRUE,
                                 min_allowed, max_allowed, TRUE)
    /\ pc' = "evaluate"
    /\ last_call' = NoCall
    /\ UNCHANGED <<ext_var, route, fmin, init, todo, best_var, best_dir,
                   best_init, improve, evaluated, scan_min,
                   fmin_hist, k2_vars, other_vars, scan_objs>>

\* evaluate_neighbors, up to the loop: best_var = ext_vars[0] raises KeyError when
\* the filter removed key 0; temp is the same dict as ext_vars, so pop removes key 0
Eval_Enter ==
    /\ pc = "evaluate"
    /\ IF 0 \in DOMAIN neighbors
       THEN /\ improve' = FALSE
            /\ best_var' = neighbors[0]
            /\ best_dir' = 0
            /\ best_init' = init
            /\ neighbors' = [i \in DOMAIN neighbors \ {0} |-> neighbors[i]]
            /\ todo' = SortedKeys(DOMAIN neighbors \ {0})
            /\ evaluated' = {}
            /\ scan_min' = -1
            /\ scan_objs' = <<>>
            /\ pc' = "scan"
       ELSE /\ pc' = "crashed"
            /\ UNCHANGED <<improve, best_var, best_dir, best_init, neighbors, todo,
                           evaluated, scan_min, scan_objs>>
    /\ last_call' = NoCall
    /\ UNCHANGED <<ext_var, route, fmin, init, fmin_hist, k2_vars, other_vars>>

\* one iteration of "for i in temp.keys()" of evaluate_neighbors
Eval_Step ==
    /\ pc = "scan"
    /\ todo # <<>>
    /\ LET i == Head(todo) IN
       \E out \in Outcomes :
          /\ last_call' = Call(neighbors[i], "explore", init, out.status, out.obj,
                               StatusOk(out.status))
          /\ IF StatusOk(out.status) /\ Improves(out.obj, fmin)
             THEN /\ fmin' = out.obj
                  /\ best_var' = neighbors[i]
                  /\ best_dir' = i
                  /\ best_init' = WarmStart(neighbors[i])
                  /\ improve' = TRUE
             ELSE UNCHANGED <<fmin, best_var, best_dir, best_init, improve>>
          /\ scan_min' = IF out.status = "ok" /\ (scan_min = -1 \/ out.obj < scan_min)
                         THEN out.obj ELSE scan_min
          /\ evaluated' = evaluated \cup {i}
          /\ scan_objs' = IF scan_trace /\ out.status = "ok"
                          THEN [k \in DOMAIN scan_objs \cup {i} |->
                                   IF k = i THEN out.obj ELSE scan_objs[k]]
                          ELSE scan_objs
    /\ todo' = Tail(todo)
    /\ UNCHANGED <<pc, ext_var, route, init, neighbors, fmin_hist, k2_vars, other_vars>>

\* evaluate_neighbors returns; "if improve == True: go_2 = True; route.append(best_var)"
\* and "else: go_1 = False", then print(route)
Dsda_AfterScan ==
    /\ pc = "scan"
    /\ todo = <<>>
    /\ IF improve
       THEN /\ route' = route_append(route, best_var)
            /\ fmin_hist' = Append(fmin_hist, fmin)
            /\ pc' = "line"
       ELSE /\ pc' = "done"
            /\ UNCHANGED <<route, fmin_hist>>
    /\ last_call' = NoCall
    /\ UNCHANGED <<ext_var, fmin, init, neighbors, todo, best_var,
                   best_dir, best_init, improve, evaluated, scan_min, k2_vars, other_vars, scan_objs>>

\* one iteration of "while go_2": move_and_evaluate(best_var, best_init, fmin,
\* neighborhood[best_dir], optimize=True, ...), then route.append(best_var) when
\* moved, else ext_var = best_var; go_2 = False
Line_Step ==
    /\ pc = "line"
    /\ LET moved_point == VecAdd(best_var, neighborhood_k_eq_2(Len(ext_var))[best_dir]) IN
       IF WithinBounds(moved_point, min_allowed, max_allowed)
       THEN \E out \in Outcomes :
               /\ last_call' = Call(moved_point, "line", best_init, out.status, out.obj,
                                    StatusOk(out.status))
               /\ IF StatusOk(out.status) /\ Improves(out.obj, fmin)
                  THEN /\ fmin' = out.obj
                       /\ best_var' = moved_point
                       /\ best_init' = WarmStart(moved_point)
                       /\ route' = route_append(route, moved_point)
                       /\ fmin_hist' = Append(fmin_hist, out.obj)
                       /\ UNCHANGED <<pc, ext_var>>
                  ELSE /\ ext_var' = best_var
                       /\ pc' = "explore"
                       /\ UNCHANGED <<fmin, best_var, best_init, route, fmin_hist>>
       ELSE /\ ext_var' = best_var
            /\ pc' = "explore"
            /\ last_call' = NoCall
            /\ UNCHANGED <<fmin, best_var, best_init, route, fmin_hist>>
    /\ UNCHANGED <<init, neighbors, todo, best_dir, improve, evaluated,
                   scan_min, k2_vars, other_vars, scan_objs>>

Next ==
    \/ Dsda_Init
    \/ Dsda_MyNeighbors
    \/ Eval_Enter
    \/ Eval_Step
    \/ Dsda_AfterScan
    \/ Line_Step

Spec == Init /\ [][Next]_vars

\* dsda is one sequential thread: it takes its next step whenever it has one
FairSpec == Spec /\ WF_vars(Next)

\* ------------------------------------- neighborhood_k_eq_2, step by step
InitK2 ==
    /\ pc = "start"
    /\ ext_var = <<>>
    /\ route = <<>>
    /\ fmin = 0
    /\ init = None
    /\ neighbors = <<>>
    /\ todo = <<>>
    /\ best_var = <<>>
    /\ best_dir = 0
    /\ best_init = None
    /\ improve = FALSE
    /\ last_call = NoCall
    /\ evaluated = {}
    /\ scan_min = -1
    /\ fmin_hist = <<>>
    /\ scan_objs = <<>>
    /\ scan_trace = FALSE
    /\ nt_arg = NT
    /\ MnIdle
    /\ FixIdle
    /\ ColIdle
    /\ RefIdle
    /\ k2_pc = "outer"
    /\ k2_n \in 1..MaxDim
    /\ k2_i = 0
    /\ k2_j = 0
    /\ directions = <<>>

\* "for i in range(num_neigh): direct = []; directions[i+1] = direct"
K2_Outer ==
    /\ k2_pc = "outer"
    /\ k2_i < 2 * k2_n
    /\ directions' = [k \in DOMAIN directions \cup {k2_i + 1} |->
                         IF k = k2_i + 1 THEN <<>> ELSE directions[k]]
    /\ k2_j' = 0
    /\ k2_pc' = "inner"
    /\ UNCHANGED <<k2_n, k2_i, dsda_vars, other_vars>>

\* "for j in range(num_ext): direct.append(neighbors[j, i])"
K2_Inner ==
    /\ k2_pc = "inner"
    /\ IF k2_j < k2_n
       THEN /\ directions' = [directions EXCEPT
                                ![k2_i + 1] = Append(@, K2Matrix(k2_n, k2_j, k2_i))]
            /\ k2_j' = k2_j + 1
            /\ UNCHANGED <<k2_i, k2_pc>>
       ELSE /\ k2_i' = k2_i + 1
            /\ k2_pc' = "outer"
            /\ UNCHANGED <<directions, k2_j>>
    /\ UNCHANGED <<k2_n, dsda_vars, other_vars>>

\* "return directions"
K2_Return ==
    /\ k2_pc = "outer"
    /\ k2_i = 2 * k2_n
    /\ k2_pc' = "done"
    /\ UNCHANGED <<k2_n, k2_i, k2_j, directions, dsda_vars, other_vars>>

NextK2 ==
    \/ K2_Outer
    \/ K2_Inner
    \/ K2_Return

SpecK2 == InitK2 /\ [][NextK2]_vars

\* dsda is not running
DsdaIdle ==
    /\ pc = "start"
    /\ ext_var = <<>>
    /\ route = <<>>
    /\ fmin = 0
    /\ init = None
    /\ neighbors = <<>>
    /\ todo = <<>>
    /\ best_var = <<>>
    /\ best_dir = 0
    /\ best_init = None
    /\ improve = FALSE
    /\ last_call = NoCall
    /\ evaluated = {}
    /\ scan_min = -1
    /\ fmin_hist = <<>>
    /\ scan_objs = <<>>

\* neighborhood_k_eq_2 is not running step by step
K2Idle ==
    /\ k2_pc = "idle"
    /\ k2_n = 0
    /\ k2_i = 0
    /\ k2_j = 0
    /\ directions = <<>>

\* ------------------------------------- dsda(NT, '2') for several NT
InitNT ==
    /\ DsdaIdle
    /\ K2Idle
    /\ MnIdle
    /\ FixIdle
    /\ ColIdle
    /\ RefIdle
    /\ scan_trace = FALSE
    /\ nt_arg \in MinNT..MaxNT

SpecNT == InitNT /\ [][Next]_vars

\* ---------------------------- the first EXPLORE scan of dsda, observed
\* dsda from its start to the return of its first evaluate_neighbors call,
\* with the objective of every ok neighbour recorded in scan_objs
InitScan ==
    /\ DsdaIdle
    /\ K2Idle
    /\ MnIdle
    /\ FixIdle
    /\ ColIdle
    /\ RefIdle
    /\ scan_trace = TRUE
    /\ nt_arg = NT

NextScan ==
    \/ Dsda_Init
    \/ Dsda_MyNeighbors
    \/ Eval_Enter
    \/ Eval_Step

SpecScan == InitScan /\ [][NextScan]_vars

\* ------------------------------------------ my_neighbors, on its own
\* a call my_neighbors(start, neighborhood_k_eq_2(n), optimize, min_allowed,
\* max_allowed, cheating) with n external variables bounded by 1..MaxCoord
InitMyN ==
    /\ DsdaIdle
    /\ K2Idle
    /\ scan_trace = FALSE
    /\ nt_arg = NT
    /\ RefIdle
    /\ FixIdle
    /\ ColIdle
    /\ mn_pc = "input"
    /\ \E n \in 2..MaxArgDim :
       \E start \in [1..n -> 1..MaxCoord] :
       \E optimize \in BOOLEAN :
       \E cheating \in BOOLEAN :
          mn_args = [start |-> start, optimize |-> optimize,
                     min_allowed |-> [j \in 1..n |-> 1],
                     max_allowed |-> [j \in 1..n |-> MaxCoord],
                     cheating |-> cheating]
    /\ mn_out = <<>>

\* the whole body of my_neighbors
MyN_Call ==
    /\ mn_pc = "input"
    /\ mn_out' = my_neighbors(mn_args.start,
                              neighborhood_k_eq_2(Len(mn_args.start)),
                              mn_args.optimize, mn_args.min_allowed,
                              mn_args.max_allowed, mn_args.cheating)
    /\ mn_pc' = "done"
    /\ UNCHANGED <<mn_args, scan_trace, nt_arg, ref_vars, dsda_vars,
                   k2_vars, fix_vars, col_vars>>

NextMyN == MyN_Call

SpecMyN == InitMyN /\ [][NextMyN]_vars

\* ------------------------------------------ get_external_information
\* the index sets of the BooleanVar families of the models scanned:
\* Y = BooleanVar(k, j), Z = BooleanVar(k), W = BooleanVar(w)
FamSets(f) == CASE f = "Y" -> <<"k", "j">>
                [] f = "Z" -> <<"k">>
                [] OTHER -> <<"w">>

\* the BooleanVar data object f[idx]
Bool(f, idx) == [fam |-> f, idx |-> idx]

\* every BooleanVar data object of a model
AllBools ==
    {Bool("Y", <<a, b>>) : a \in 1..NK, b \in 1..NJ}
        \cup {Bool("Z", <<a>>) : a \in 1..NK}
        \cup {Bool("W", <<a>>) : a \in 1..2}

\* the argument lists c.body.args[1:] of the exactly constraints scanned
ArgLists ==
    {<<Bool("Y", <<1, 1>>), Bool("Y", <<2, 1>>), Bool("Y", <<3, 1>>)>>,
     <<Bool("Y", <<3, 1>>), Bool("Y", <<1, 1>>), Bool("Y", <<2, 1>>)>>,
     <<Bool("Y", <<3, 2>>), Bool("Y", <<1, 2>>)>>,
     <<Bool("Y", <<1, 1>>), Bool("Y", <<2, 2>>), Bool("Y", <<3, 1>>)>>,
     <<Bool("Y", <<1, 2>>), Bool("Y", <<1, 1>>)>>,
     <<Bool("Z", <<2>>), Bool("Z", <<1>>), Bool("Z", <<3>>)>>,
     <<Bool("Y", <<1, 1>>), Bool("Z", <<2>>)>>}

\* exactly(n, args...)
ExactlyCons == {[n |-> n, args |-> a] : n \in 1..MaxExactly, a \in ArgLists}

\* the models scanned: one exactly constraint, or one followed by an exactly(1, ...)
ModelCons ==
    {<<c>> : c \in ExactlyCons}
        \cup {<<c, d>> : c \in ExactlyCons, d \in {e \in ExactlyCons : e.n = 1}}

\* the Ext_Ref dicts passed
ExtRefs ==
    {<<[fam |-> "Y", ref |-> "k"]>>,
     <<[fam |-> "Y", ref |-> "j"]>>,
     <<[fam |-> "Z", ref |-> "k"]>>,
     <<[fam |-> "Y", ref |-> "k"], [fam |-> "Z", ref |-> "k"]>>,
     <<[fam |-> "Z", ref |-> "j"]>>}

\* i.index_set() has the attribute _sets: it is a product of Sets
HasSets(f) == Len(FamSets(f)) >= 2

\* lines 12-19: for each family of Ext_Ref (by position), the 0-based dimensions
\* whose Set is the reference Set, and the others, ascending
TryClassify(E) ==
    [ref_index |->
        [p \in 1..Len(E) |->
            SortedKeys({d \in 0..(Len(FamSets(E[p].fam)) - 1) :
                           FamSets(E[p].fam)[d + 1] = E[p].ref})],
     no_ref_index |->
        [p \in 1..Len(E) |->
            SortedKeys({d \in 0..(Len(FamSets(E[p].fam)) - 1) :
                           FamSets(E[p].fam)[d + 1] # E[p].ref})]]

\* i.index_set().name == Ext_Ref[i].name: the index set of a family over a
\* product of Sets carries a name of its own
IndexSetIs(f, r) == ~HasSets(f) /\ FamSets(f)[1] = r

\* lines 21-31: every family classified again as if it had one dimension
ExceptClassify(E) ==
    [ref_index |->
        [p \in 1..Len(E) |-> IF IndexSetIs(E[p].fam, E[p].ref) THEN <<0>> ELSE <<>>],
     no_ref_index |->
        [p \in 1..Len(E) |-> IF IndexSetIs(E[p].fam, E[p].ref) THEN <<>> ELSE <<0>>]]

\* lines 8-31: the try block raises at the first family without _sets
Classify(E) ==
    IF \E p \in 1..Len(E) : ~HasSets(E[p].fam)
    THEN ExceptClassify(E)
    ELSE TryClassify(E)

\* a < b for two index tuples of the same length (Python tuple order)
LexLess(a, b) ==
    \E q \in 1..Len(a) :
        /\ a[q] < b[q]
        /\ \A r \in 1..(q - 1) : a[r] = b[r]

\* the sort key of one argument: x.index()[d], or x.index() when d = -1
SortKey(b, d) == IF d = -1 THEN b.idx ELSE <<b.idx[d + 1]>>

\* b put into the sorted list s after every element whose key is not greater
InsertStable(s, b, d) ==
    LET n == Cardinality({q \in 1..Len(s) : ~LexLess(SortKey(b, d), SortKey(s[q], d))})
    IN SubSeq(s, 1, n) \o <<b>> \o SubSeq(s, n + 1, Len(s))

RECURSIVE SortFrom(_, _, _, _)
SortFrom(args, k, acc, d) ==
    IF k > Len(args) THEN acc
    ELSE SortFrom(args, k + 1, InsertStable(acc, args[k], d), d)

\* the arguments left in the order of the constraint
unsorted_args(args, d) == args

\* sorted(c.body.args[1:], key=...), a stable sort
sorted_args(args, d) == SortFrom(args, 1, <<>>, d)

\* lines 68-80 and 85-98: the entry built from constraint c, sorted on
\* dimension d (-1: on the whole index)
NewEntry(c, d) ==
    LET sa == sorted_args(c.args, d) IN
    [exactly_number |-> c.n,
     Boolean_vars |-> sa,
     Boolean_vars_ordered_index |->
        [k \in 1..Len(sa) |->
            IF d # -1 THEN sa[k].idx[d + 1]
            ELSE IF Len(sa[k].idx) = 1 THEN sa[k].idx[1] ELSE sa[k].idx],
     Ext_var_lower_bound |-> 1,
     Ext_var_upper_bound |-> Len(sa)]

\* lines 44-100 for constraint c and the family at position p of Ext_Ref:
\* "skip" (nothing added), "entry", or "raise" (x.index()[j] on the integer index
\* of a one-dimensional family, or expected_ordered_set_index[0] on an empty list)
TryEntry(c, E, cl, p) ==
    LET f == E[p].fam
        ref == cl.ref_index[p]
        other == cl.no_ref_index[p]
    IN IF \E k \in 1..Len(c.args) : c.args[k].fam # f
       THEN [kind |-> "skip"]
       ELSE IF Len(other) >= 1
       THEN IF ~HasSets(f)
            THEN [kind |-> "raise"]
            ELSE IF \A q \in 1..Len(other) : \A k \in 1..Len(c.args) :
                       c.args[k].idx[other[q] + 1] = c.args[1].idx[other[q] + 1]
            THEN IF ref = <<>>
                 THEN [kind |-> "raise"]
                 ELSE [kind |-> "entry", entry |-> NewEntry(c, ref[1])]
            ELSE [kind |-> "skip"]
       ELSE [kind |-> "entry", entry |-> NewEntry(c, -1)]

\* lines 35-100: the loops over the constraints (ci) and over Ext_Ref (p)
RECURSIVE ScanFrom(_, _, _, _, _, _)
ScanFrom(cs, E, cl, ci, p, dict) ==
    IF ci > Len(cs) THEN [raised |-> FALSE, dict |-> dict]
    ELSE IF p > Len(E) THEN ScanFrom(cs, E, cl, ci + 1, 1, dict)
    ELSE LET r == TryEntry(cs[ci], E, cl, p) IN
         IF r.kind = "raise" THEN [raised |-> TRUE, dict |-> dict]
         ELSE IF r.kind = "entry" THEN ScanFrom(cs, E, cl, ci, p + 1, Append(dict, r.entry))
         ELSE ScanFrom(cs, E, cl, ci, p + 1, dict)

\* sum(v[i] for i in 1..k)
RECURSIVE SumTo(_, _)
SumTo(v, k) == IF k = 0 THEN 0 ELSE v[k] + SumTo(v, k - 1)

\* the number of repetitions of each entry
Repetitions(dict) == [i \in 1..Len(dict) |-> dict[i].exactly_number]

\* one bound per entry, whatever its exactly_number
FlattenOnce(dict, field) == [i \in 1..Len(dict) |-> dict[i][field]]

\* lines 105-113: the bound of each entry repeated exactly_number times, entries
\* in key order
RECURSIVE FlattenFrom(_, _, _, _)
FlattenFrom(dict, field, i, acc) ==
    IF i > Len(dict) THEN acc
    ELSE FlattenFrom(dict, field, i + 1,
                     acc \o [j \in 1..dict[i].exactly_number |-> dict[i][field]])

Flatten(dict, field) == FlattenFrom(dict, field, 1, <<>>)

\* a fresh model: no BooleanVar is fixed
FreshModel == [b \in AllBools |-> "free"]

InitRef ==
    /\ DsdaIdle
    /\ K2Idle
    /\ MnIdle
    /\ FixIdle
    /\ ColIdle
    /\ scan_trace = FALSE
    /\ nt_arg = NT
    /\ ref_pc = "scan"
    /\ Ext_Ref \in ExtRefs
    /\ lcons \in ModelCons
    /\ ref_index = <<>>
    /\ no_ref_index = <<>>
    /\ bstate = FreshModel
    /\ reformulation_dict = <<>>
    /\ number_of_external_variables = 0
    /\ lower_bounds = <<>>
    /\ upper_bounds = <<>>
    /\ x_ext = <<>>
    /\ logic_expr = NoLogicExpr

\* the whole of get_external_information(m, Ext_Ref)
Ref_Scan ==
    /\ ref_pc = "scan"
    /\ ref_index' = Classify(Ext_Ref).ref_index
    /\ no_ref_index' = Classify(Ext_Ref).no_ref_index
    /\ LET r == ScanFrom(lcons, Ext_Ref, Classify(Ext_Ref), 1, 1, <<>>) IN
       IF r.raised
       THEN /\ ref_pc' = "scan_raised"
            /\ UNCHANGED <<reformulation_dict, number_of_external_variables,
                           lower_bounds, upper_bounds>>
       ELSE /\ ref_pc' = "scanned"
            /\ reformulation_dict' = r.dict
            /\ number_of_external_variables' = SumTo(Repetitions(r.dict), Len(r.dict))
            /\ lower_bounds' = Flatten(r.dict, "Ext_var_lower_bound")
            /\ upper_bounds' = Flatten(r.dict, "Ext_var_upper_bound")
    /\ UNCHANGED <<Ext_Ref, lcons, bstate, x_ext, logic_expr,
                   scan_trace, nt_arg, mn_vars, dsda_vars,
                   k2_vars, fix_vars, col_vars>>

\* ------------------------------------------------------- external_ref
\* the external vectors passed: one value per external variable
ExtVectors(n) == [1..n -> 1..(NK + 1)]

\* one element of logic_expr: i[0] is the literal var or ~var, i[1] the target
Dep(var, neg, target) == [var |-> var, neg |-> neg, target |-> target]

\* the logic_expr arguments passed (NoLogicExpr: the default None)
LogicExprs ==
    {NoLogicExpr,
     [given |-> TRUE, list |-> <<>>],
     [given |-> TRUE,
      list |-> <<Dep(Bool("Y", <<1, 1>>), FALSE, Bool("W", <<1>>))>>],
     [given |-> TRUE,
      list |-> <<Dep(Bool("Y", <<1, 1>>), FALSE, Bool("W", <<1>>)),
                 Dep(Bool("W", <<1>>), TRUE, Bool("W", <<2>>))>>],
     [given |-> TRUE,
      list |-> <<Dep(Bool("W", <<1>>), TRUE, Bool("W", <<2>>)),
                 Dep(Bool("Z", <<2>>), FALSE, Bool("W", <<1>>))>>]}

\* the position that is not advanced from one entry to the next
ExtVarPositionInEntry(dict, i, j) == j

\* ext_var_position (0-based) of repetition j (0-based) of entry i
ExtVarPosition(dict, i, j) == SumTo(Repetitions(dict), i - 1) + j

\* the pairs (entry i, repetition j) the loops of external_ref run over
Slots(dict) ==
    UNION {{<<i, j>> : j \in 0..(dict[i].exactly_number - 1)} : i \in 1..Len(dict)}

\* lines 131-138: the Booleans the first loop fixes True, Boolean_vars[k - 1]
\* for the k in 1..len(Boolean_vars) with x[ext_var_position] == k
FixedTrue(dict, x) ==
    {dict[sl[1]].Boolean_vars[x[ExtVarPosition(dict, sl[1], sl[2]) + 1]] :
        sl \in {t \in Slots(dict) :
                   x[ExtVarPosition(dict, t[1], t[2]) + 1]
                       \in 1..Len(dict[t[1]].Boolean_vars)}}

\* the Booleans of the entries of the map
EntryBools(dict) ==
    UNION {{dict[i].Boolean_vars[k] : k \in 1..Len(dict[i].Boolean_vars)} :
              i \in 1..Len(dict)}

\* no Boolean is taken for unfixed
IsFixedNever(st) == FALSE

\* is_fixed() == False
IsNotFixed(st) == st = "free"

\* what pe.value(i[0]) gives when the operand of i[0] has no value: an
\* exception or a value, depending on the expression and the pyomo version
Undefined == {"raise", "True", "False", "None"}

\* "not v"
Negate(v) == IF v = "True" THEN "False" ELSE "True"

\* every element evaluated on the state before the loop, not at its turn
FixDependentAtOnce(list, k, bs, u) ==
    LET val(q) == IF bs[list[q].var] \in {"True", "False"}
                  THEN (IF list[q].neg THEN Negate(bs[list[q].var]) ELSE bs[list[q].var])
                  ELSE u[q]
    IN [raised |-> \E q \in 1..Len(list) : val(q) = "raise",
        bstate |-> [b \in DOMAIN bs |->
                      IF \E q \in 1..Len(list) : list[q].target = b /\ val(q) # "raise"
                      THEN val(CHOOSE q \in 1..Len(list) : list[q].target = b)
                      ELSE bs[b]]]

\* lines 147-148 from element k on: i[1].fix(pe.value(i[0])), in list order;
\* u[k] is the outcome taken when the operand of element k has no value
RECURSIVE FixDependentFrom(_, _, _, _)
FixDependentFrom(list, k, bs, u) ==
    IF k > Len(list) THEN [raised |-> FALSE, bstate |-> bs]
    ELSE LET it == list[k]
             v == IF bs[it.var] \in {"True", "False"}
                  THEN (IF it.neg THEN Negate(bs[it.var]) ELSE bs[it.var])
                  ELSE u[k]
         IN IF v = "raise" THEN [raised |-> TRUE, bstate |-> bs]
            ELSE FixDependentFrom(list, k + 1, [bs EXCEPT ![it.target] = v], u)

\* the call external_ref(m, x, reformulation_dict, logic_expr) on the fresh model
\* and its first loop (lines 131-138); x has one value per external variable
ExtRef_FixTrue ==
    /\ ref_pc = "scanned"
    /\ x_ext' \in ExtVectors(number_of_external_variables)
    /\ logic_expr' \in LogicExprs
    /\ bstate' = [b \in AllBools |->
                    IF b \in FixedTrue(reformulation_dict, x_ext')
                    THEN "True" ELSE bstate[b]]
    /\ ref_pc' = "fixed_true"
    /\ UNCHANGED <<Ext_Ref, lcons, ref_index, no_ref_index, reformulation_dict, number_of_external_variables,
                   lower_bounds, upper_bounds, scan_trace, nt_arg, mn_vars, dsda_vars,
                   k2_vars, fix_vars, col_vars>>

\* the second loop (lines 140-145)
ExtRef_FixFalse ==
    /\ ref_pc = "fixed_true"
    /\ bstate' = [b \in AllBools |->
                    IF b \in EntryBools(reformulation_dict) /\ IsNotFixed(bstate[b])
                    THEN "False" ELSE bstate[b]]
    /\ ref_pc' = "fixed_false"
    /\ UNCHANGED <<Ext_Ref, lcons, ref_index, no_ref_index, reformulation_dict, number_of_external_variables,
                   lower_bounds, upper_bounds, x_ext, logic_expr,
                   scan_trace, nt_arg, mn_vars, dsda_vars,
                   k2_vars, fix_vars, col_vars>>

\* "for i in logic_expr: i[1].fix(pe.value(i[0]))" (lines 147-148); iterating
\* over None raises
ExtRef_FixDependent ==
    /\ ref_pc = "fixed_false"
    /\ IF ~logic_expr.given
       THEN /\ ref_pc' = "ext_raised"
            /\ UNCHANGED bstate
       ELSE \E u \in [1..Len(logic_expr.list) -> Undefined] :
               LET r == FixDependentFrom(logic_expr.list, 1, bstate, u) IN
               /\ bstate' = r.bstate
               /\ ref_pc' = IF r.raised THEN "ext_raised" ELSE "fixed_dependent"
    /\ UNCHANGED <<Ext_Ref, lcons, ref_index, no_ref_index, reformulation_dict, number_of_external_variables,
                   lower_bounds, upper_bounds, x_ext, logic_expr,
                   scan_trace, nt_arg, mn_vars, dsda_vars,
                   k2_vars, fix_vars, col_vars>>

\* TransformationFactory('gdp.fix_disjuncts').apply_to(m) (line 151); the
\* BooleanVars of the map and of logic_expr are fixed already and stay so
ExtRef_FixDisjuncts ==
    /\ ref_pc = "fixed_dependent"
    /\ ref_pc' = "fixed_disjuncts"
    /\ UNCHANGED <<Ext_Ref, lcons, ref_index, no_ref_index, bstate,
                   reformulation_dict,
                   number_of_external_variables, lower_bounds, upper_bounds,
                   x_ext, logic_expr, scan_trace, nt_arg, mn_vars, dsda_vars,
                   k2_vars, fix_vars, col_vars>>

\* TransformationFactory('contrib.deactivate_trivial_constraints').apply_to(m,
\* tmp=False, ignore_infeasible=True) (lines 152-153), the prints, "return m"
ExtRef_Deactivate ==
    /\ ref_pc = "fixed_disjuncts"
    /\ ref_pc' = "returned"
    /\ UNCHANGED <<Ext_Ref, lcons, ref_index, no_ref_index, bstate,
                   reformulation_dict,
                   number_of_external_variables, lower_bounds, upper_bounds,
                   x_ext, logic_expr, scan_trace, nt_arg, mn_vars, dsda_vars,
                   k2_vars, fix_vars, col_vars>>

NextRef ==
    \/ Ref_Scan
    \/ ExtRef_FixTrue
    \/ ExtRef_FixFalse
    \/ ExtRef_FixDependent
    \/ ExtRef_FixDisjuncts
    \/ ExtRef_Deactivate

SpecRef == InitRef /\ [][NextRef]_vars

\* ===================================================================
\* The indicator fixing of fnlp_gdp(NT, x): "for n in m.N" fixes the feed,
\* the recycle and the unit-operation indicators of unit n.  The
\* comparison "temp == 1" is taken by its value, temp being an expression
\* of variables that are all fixed when it is read.
\* ===================================================================

\* the largest NT of a call of fnlp_gdp
MaxUnits == 5

\* sum(m.YF[n2] for n2 in m.N if n2 <= n), the feed of unit n included
PriorFeedsInclusive(yf, n) == SumTo(yf, n)

\* sum(m.YF[n2] for n2 in m.N if n2 <= n) - m.YF[n]
PriorFeeds(yf, n) == SumTo(yf, n) - yf[n]

\* temp = 1 - (sum(m.YF[n2] for n2 in m.N if n2 <= n) - m.YF[n])
Temp(yf, n) == 1 - PriorFeeds(yf, n)

InitFix ==
    /\ DsdaIdle
    /\ K2Idle
    /\ scan_trace = FALSE
    /\ nt_arg = NT
    /\ MnIdle
    /\ RefIdle
    /\ ColIdle
    /\ fx_pc = "loop"
    /\ fx_NT \in 1..MaxUnits
    /\ fx_x \in [1..2 -> 1..fx_NT]
    /\ fx_n = 1
    /\ YF = <<>>
    /\ YR_is_recycle = <<>>
    /\ YR_is_not_recycle = <<>>
    /\ YP_is_cstr = <<>>
    /\ YP_is_bypass = <<>>

\* one iteration of "for n in m.N"
Fix_Unit ==
    /\ fx_pc = "loop"
    /\ fx_n <= fx_NT
    /\ LET n == fx_n
           yf == Append(YF, IF n = fx_x[1] THEN 1 ELSE 0)
       IN  /\ YF' = yf
           /\ IF n = fx_x[2]
              THEN /\ YR_is_recycle' = Append(YR_is_recycle, 1)
                   /\ YR_is_not_recycle' = Append(YR_is_not_recycle, 0)
              ELSE /\ YR_is_recycle' = Append(YR_is_recycle, 0)
                   /\ YR_is_not_recycle' = Append(YR_is_not_recycle, 1)
           /\ IF Temp(yf, n) = 1
              THEN /\ YP_is_cstr' = Append(YP_is_cstr, 1)
                   /\ YP_is_bypass' = Append(YP_is_bypass, 0)
              ELSE /\ YP_is_cstr' = Append(YP_is_cstr, 0)
                   /\ YP_is_bypass' = Append(YP_is_bypass, 1)
    /\ fx_n' = fx_n + 1
    /\ UNCHANGED <<fx_pc, fx_NT, fx_x>>
    /\ UNCHANGED <<scan_trace, nt_arg, mn_vars, ref_vars, col_vars, dsda_vars,
                   k2_vars>>

\* "for n in m.N" is exhausted
Fix_Done ==
    /\ fx_pc = "loop"
    /\ fx_n > fx_NT
    /\ fx_pc' = "fixed"
    /\ UNCHANGED <<fx_NT, fx_x, fx_n, YF, YR_is_recycle, YR_is_not_recycle,
                   YP_is_cstr, YP_is_bypass>>
    /\ UNCHANGED <<scan_trace, nt_arg, mn_vars, ref_vars, col_vars, dsda_vars,
                   k2_vars>>

NextFix ==
    \/ Fix_Unit
    \/ Fix_Done

SpecFix == InitFix /\ [][NextFix]_vars

\* ===================================================================
\* The indicator fixing of build_column(min_trays, max_trays, xD, xB,
\* x_input): the first loop records the reflux and boil-up positions, the
\* second fixes m.tray[n] and m.no_tray[n] from temp.  The elif of the
\* second loop is read as the alternative of the if above it.
\* ===================================================================

\* the smallest and the largest max_trays of a call of build_column
SmallestColumn == 4
LargestColumn == 7

\* m.reboil_tray = 1
reboil_tray == 1

\* m.condens_tray = max_trays
condens_tray(mt) == mt

\* int(round(max_trays / 2)): max_trays / 2 is the floor of the quotient
\* where / divides integers, and otherwise the quotient, which round takes
\* to the even neighbour when it is a half
FeedTrays(mt) ==
    {mt \div 2,
     IF mt % 2 = 0 THEN mt \div 2
     ELSE IF (mt \div 2) % 2 = 0 THEN mt \div 2 ELSE mt \div 2 + 1}

\* m.trays - [m.condens_tray, m.reboil_tray]
InteriorTrays(mt) == (1..mt) \ {condens_tray(mt), reboil_tray}

\* m.conditional_trays
ConditionalTrays(mt, ft) == (1..mt) \ {condens_tray(mt), ft, reboil_tray}

\* sum(fixed[j] for j in m.trays if j>=n and j<=max_trays-1)
RECURSIVE SumFrom(_, _, _)
SumFrom(fixed, n, mt) ==
    IF n > mt - 1 THEN 0 ELSE fixed[n] + SumFrom(fixed, n + 1, mt)

\* temp of the second loop
ColTemp(yr, yb, n, mt) ==
    1 - (1 - SumFrom(yr, n, mt)) - (SumFrom(yb, n, mt) - yb[n])

InitCol ==
    /\ DsdaIdle
    /\ K2Idle
    /\ scan_trace = FALSE
    /\ nt_arg = NT
    /\ MnIdle
    /\ RefIdle
    /\ FixIdle
    /\ col_pc = "input"
    /\ max_trays \in SmallestColumn..LargestColumn
    /\ feed_tray \in FeedTrays(max_trays)
    /\ x_input \in [1..2 -> InteriorTrays(max_trays)]
    /\ YR_fixed = <<>>
    /\ YB_fixed = <<>>
    /\ col_n = 0
    /\ tray = [t \in ConditionalTrays(max_trays, feed_tray) |-> "free"]
    /\ no_tray = [t \in ConditionalTrays(max_trays, feed_tray) |-> "free"]

\* the first "for n in m.trays - [m.condens_tray, m.reboil_tray]"
Col_Positions ==
    /\ col_pc = "input"
    /\ YR_fixed' = [n \in InteriorTrays(max_trays) |->
                       IF n = x_input[1] THEN 1 ELSE 0]
    /\ YB_fixed' = [n \in InteriorTrays(max_trays) |->
                       IF n = x_input[2] THEN 1 ELSE 0]
    /\ col_n' = 2
    /\ col_pc' = "loop"
    /\ UNCHANGED <<max_trays, feed_tray, x_input, tray, no_tray>>
    /\ UNCHANGED <<scan_trace, nt_arg, mn_vars, ref_vars, fix_vars, dsda_vars,
                   k2_vars>>

\* one iteration of the second loop
Col_Tray ==
    /\ col_pc = "loop"
    /\ col_n \in InteriorTrays(max_trays)
    /\ LET n == col_n
           temp == ColTemp(YR_fixed, YB_fixed, n, max_trays)
       IN  IF temp = 1 /\ n # feed_tray
           THEN /\ tray' = [tray EXCEPT ![n] = "True"]
                /\ no_tray' = [no_tray EXCEPT ![n] = "False"]
           ELSE IF temp = 0 /\ n # feed_tray
           THEN /\ tray' = [tray EXCEPT ![n] = "False"]
                /\ no_tray' = [no_tray EXCEPT ![n] = "True"]
           ELSE UNCHANGED <<tray, no_tray>>
    /\ col_n' = col_n + 1
    /\ UNCHANGED <<col_pc, max_trays, feed_tray, x_input, YR_fixed, YB_fixed>>
    /\ UNCHANGED <<scan_trace, nt_arg, mn_vars, ref_vars, fix_vars, dsda_vars,
                   k2_vars>>

\* the second loop is exhausted
Col_Done ==
    /\ col_pc = "loop"
    /\ col_n \notin InteriorTrays(max_trays)
    /\ col_pc' = "done"
    /\ UNCHANGED <<max_trays, feed_tray, x_input, YR_fixed, YB_fixed, col_n,
                   tray, no_tray>>
    /\ UNCHANGED <<scan_trace, nt_arg, mn_vars, ref_vars, fix_vars, dsda_vars,
                   k2_vars>>

NextCol ==
    \/ Col_Positions
    \/ Col_Tray
    \/ Col_Done

SpecCol == InitCol /\ [][NextCol]_vars

\* ===================================================================
\* Properties
\* ===================================================================
\* the state in which evaluate_neighbors has scanned every key and returns
ScanReturns == pc = "scan" /\ todo = <<>>

\* the latest step called fnlp_gdp from evaluate_neighbors or move_and_evaluate
SearchCall == last_call.by \in {"explore", "line"}

\* C1: every vector handed to fnlp_gdp by evaluate_neighbors (EXPLORE) or by
\* move_and_evaluate (LINE-SEARCH) has each coordinate j inside
\* [min_allowed[j], max_allowed[j]]; the neighbours kept for the scan are all
\* inside the bounds, and dropping the others raises no error: the incumbent
\* itself is never among the dropped for a bound.
C1_SolvedWithinBounds ==
    /\ SearchCall =>
          \A j \in 1..Len(last_call.x) :
             last_call.x[j] >= min_allowed[j] /\ last_call.x[j] <= max_allowed[j]
    /\ pc \in {"evaluate", "scan"} =>
          \A i \in DOMAIN neighbors : \A j \in 1..2 :
             neighbors[i][j] >= min_allowed[j] /\ neighbors[i][j] <= max_allowed[j]
    /\ pc = "explore" =>
          \A j \in 1..2 : ext_var[j] >= min_allowed[j] /\ ext_var[j] <= max_allowed[j]

\* C1 witness: a line search along +e1 reached [5,1], its next step [6,1] was
\* dropped, and the following scan of [5,1] solved only [5,2] and [4,1]
\* ([6,1] and [5,0] dropped).
C1_Witness ==
    /\ ScanReturns
    /\ ext_var = <<5, 1>>
    /\ evaluated = {2, 3}
    /\ Len(route) >= 3
    /\ route[Len(route)] = <<5, 1>>
    /\ route[Len(route) - 1] = <<4, 1>>

\* C2 (as stated): when an EXPLORE scan reports an improvement, the objective of
\* the returned neighbour (the returned fmin) is the lowest objective of all
\* surviving neighbours with status ok, and is below the incoming fmin by more
\* than the tolerance.
C2_ReturnsLowest ==
    (ScanReturns /\ improve) =>
        /\ fmin = scan_min
        /\ fmin + Tol < Last(fmin_hist)

\* C2 (amended): when an EXPLORE scan reports an improvement, the objective of
\* the returned neighbour is below the incoming fmin by more than the tolerance
\* and is the lowest up to the tolerance: no surviving neighbour with status ok
\* is lower than it by more than the tolerance.
C2_ReturnsLowestUpToTol ==
    (ScanReturns /\ improve) =>
        /\ scan_min # -1
        /\ scan_min <= fmin
        /\ fmin <= scan_min + Tol
        /\ fmin + Tol < Last(fmin_hist)

\* C2 witness: a scan reports an improvement although an ok neighbour lies below
\* the returned one by less than the tolerance.
C2_Witness == ScanReturns /\ improve /\ scan_min # -1 /\ scan_min < fmin

\* C3: a candidate whose solve returns a status other than ok is never accepted
\* (fmin, best_var, best_init and route stay as they were), its objective is not
\* compared with fmin, the search goes on (the scan continues, or the line
\* search hands over to EXPLORE), and a scan that returns has evaluated every
\* surviving neighbour.
C3_NonOkNeverAccepted ==
    /\ [][(last_call'.by \in {"explore", "line"} /\ last_call'.status # "ok") =>
            /\ fmin' = fmin
            /\ best_var' = best_var
            /\ best_init' = best_init
            /\ route' = route
            /\ ~last_call'.compared
            /\ pc' = (IF last_call'.by = "explore" THEN "scan" ELSE "explore")]_vars
    /\ [](ScanReturns => evaluated = DOMAIN neighbors)

\* C3 witness: a scan of four neighbours returns with every one of them
\* evaluated and none of them ok.
C3_Witness ==
    /\ ScanReturns
    /\ Cardinality(evaluated) = 4
    /\ scan_min = -1
    /\ last_call.status = "error"

\* C4: if the solve of the initial vector does not return ok, dsda stops: it
\* does not enter EXPLORE and does not take the objective of that solve as fmin.
C4_InitFailureIsFatal ==
    (last_call.by = "init" /\ last_call.status # "ok") =>
        (pc # "explore" /\ fmin_hist = <<>>)

\* C5: the warm-start passed to every neighbour solve of an EXPLORE scan is the
\* one produced by the solve of the current incumbent.
C5_ExploreUsesIncumbentWarmStart ==
    last_call.by = "explore" => last_call.ws = [x |-> ext_var]

\* C6: the fmin values recorded with the successive route entries never
\* increase (every accepted move records a lower one), the running fmin is
\* never above the last recorded one, and no step raises fmin.
C6_FminNonIncreasing ==
    /\ [](pc # "start" =>
           /\ Len(fmin_hist) = Len(route)
           /\ \A k \in 1..(Len(fmin_hist) - 1) : fmin_hist[k + 1] < fmin_hist[k]
           /\ fmin <= Last(fmin_hist))
    /\ [][pc # "start" => fmin' <= fmin]_vars

\* C6 witness: an accepted EXPLORE move followed by an accepted LINE-SEARCH step.
C6_Witness == pc = "line" /\ Len(fmin_hist) >= 3

\* C7: dsda always terminates by the EXPLORE-to-DONE transition.
C7_Terminates == <>(pc = "done")

\* C8: the route is append-only and chronological: its first entry is the
\* initial vector; a step adds an entry exactly when it is the initial solve, an
\* EXPLORE scan returning an improvement or a LINE-SEARCH solve that is ok and
\* improves fmin by more than the tolerance; the added entry goes last and is
\* the accepted point; the earlier entries stay; and every EXPLORE scan starts
\* from the last route entry.
C8_RouteAppendOnly ==
    /\ [](last_call.by = "init" => route = <<last_call.x>> /\ ext_var = last_call.x)
    /\ [](pc \in {"explore", "evaluate"} => ext_var = Last(route))
    /\ [][pc # "start" =>
            /\ Len(route) >= 1
            /\ route'[1] = route[1]
            /\ LET accepted ==
                      \/ ScanReturns /\ improve
                      \/ /\ last_call'.by = "line"
                         /\ last_call'.status = "ok"
                         /\ last_call'.obj + Tol < fmin
               IN IF accepted
                  THEN /\ Len(route') = Len(route) + 1
                       /\ SubSeq(route', 1, Len(route)) = route
                       /\ Last(route') = best_var'
                  ELSE route' = route]_vars

\* C8 witness: a second EXPLORE scan starts after an accepted EXPLORE move and
\* an accepted LINE-SEARCH step.
C8_Witness == pc = "explore" /\ Len(route) >= 3

\* C9 (as stated): from [3,2] with bounds [1,5] and the asymmetry filter on,
\* my_neighbors yields the candidates [4,2], [2,2], [3,1], and [3,3] is excluded.
C9_Excludes33 ==
    (pc = "evaluate" /\ ext_var = <<3, 2>>) =>
        {neighbors[i] : i \in DOMAIN neighbors \ {0}} = {<<4, 2>>, <<2, 2>>, <<3, 1>>}

\* C9 (amended): from [3,2] with bounds [1,5] and the asymmetry filter on,
\* my_neighbors yields all four of [4,2] (id 1), [3,3] (id 2), [2,2] (id 3) and
\* [3,1] (id 4) beside the start point under key 0: each respects the bounds
\* and x2 <= x1, and [3,3] is kept because x2 - x1 = 0 is not above 0.
C9_Keeps33 ==
    (pc = "evaluate" /\ ext_var = <<3, 2>>) =>
        /\ DOMAIN neighbors = 0..4
        /\ neighbors[0] = <<3, 2>>
        /\ neighbors[1] = <<4, 2>>
        /\ neighbors[2] = <<3, 3>>
        /\ neighbors[3] = <<2, 2>>
        /\ neighbors[4] = <<3, 1>>

\* C9 witness: my_neighbors has just run on the incumbent [3,2].
C9_Witness == pc = "evaluate" /\ ext_var = <<3, 2>> /\ 2 \in DOMAIN neighbors

\* C10: neighborhood_k_eq_2(n) returns exactly 2n directions keyed 1..2n, each a
\* signed unit vector of length n, all distinct, direction i being +e_i and
\* direction i+n being -e_i, so that the two are additive inverses.
C10_SignedUnitDirections ==
    k2_pc = "done" =>
        /\ DOMAIN directions = 1..(2 * k2_n)
        /\ \A i \in DOMAIN directions :
              /\ Len(directions[i]) = k2_n
              /\ \E c \in 1..k2_n :
                    /\ directions[i][c] \in {1, -1}
                    /\ \A d \in 1..k2_n : d # c => directions[i][d] = 0
        /\ \A i, k \in DOMAIN directions : i # k => directions[i] # directions[k]
        /\ \A i \in 1..k2_n :
              /\ \A d \in 1..k2_n : directions[i][d] = (IF d = i THEN 1 ELSE 0)
              /\ \A d \in 1..k2_n : directions[i + k2_n][d] = 0 - directions[i][d]
        /\ directions = neighborhood_k_eq_2(k2_n)

\* C10 witness: the run for dimension 3 has returned its six directions.
C10_Witness == k2_pc = "done" /\ k2_n = 3 /\ Cardinality(DOMAIN directions) = 6

\* the vector is inside the box {1:1, 2:1} .. {1:5, 2:5}
InBox(v) == \A j \in 1..Len(v) : v[j] >= 1 /\ v[j] <= 5

\* the solve of the step just taken is an accepted LINE-SEARCH step
LineAccepted ==
    /\ last_call'.by = "line"
    /\ InBox(last_call'.x)
    /\ last_call'.status = "ok"
    /\ last_call'.obj + Tol < fmin

\* C17: a LINE-SEARCH step is accepted (its point appended to the route, fmin
\* lowered to its objective, the line search continued) only when the moved
\* point is inside the box, its solve has status ok and its objective is below
\* fmin by more than the tolerance; at the first step that fails, the route is
\* left as it is (the rejected point is not recorded), the line search stops and
\* the next EXPLORE starts from the last accepted point, the last of the route.
C17_LineSearchAcceptance ==
    [][pc = "line" =>
          IF LineAccepted
          THEN /\ route' = Append(route, last_call'.x)
               /\ fmin' = last_call'.obj
               /\ pc' = "line"
          ELSE /\ route' = route
               /\ fmin' = fmin
               /\ pc' = "explore"
               /\ ext_var' = Last(route)]_vars

\* a line search that accepted a step has just rejected the next point of the
\* same direction, whose solve was ok but not low enough
C17_Witness ==
    /\ pc = "explore"
    /\ Len(route) >= 3
    /\ last_call.by = "line"
    /\ last_call.status = "ok"
    /\ ext_var = Last(route)
    /\ \A j \in 1..2 : last_call.x[j] - Last(route)[j]
                          = Last(route)[j] - route[Len(route) - 1][j]

\* direction i of the two-variable neighbourhood: +e_i for i in 1..2, -e_(i-2)
\* for i in 3..4
DirVec(i) == [j \in 1..2 |-> (IF i = j THEN 1 ELSE 0) - (IF i = j + 2 THEN 1 ELSE 0)]

\* C18: when a scan hands over to LINE-SEARCH, best_dir is the direction of the
\* neighbour it returned (best_var = ext_var + direction best_dir); every
\* LINE-SEARCH step keeps best_dir and solves the last accepted point moved by
\* that same direction, and no EXPLORE solve is made before the line search
\* has stopped.
C18_LineSearchKeepsWinningDirection ==
    [][/\ (pc = "scan" /\ pc' = "line") =>
              /\ best_dir \in 1..4
              /\ \A j \in 1..2 : best_var[j] = ext_var[j] + DirVec(best_dir)[j]
       /\ pc = "line" =>
              /\ best_dir' = best_dir
              /\ pc' \in {"line", "explore"}
              /\ last_call'.by # "explore"
              /\ last_call'.by = "line" =>
                    \A j \in 1..2 :
                       last_call'.x[j] = Last(route)[j] + DirVec(best_dir)[j]]_vars

\* a LINE-SEARCH step along direction 3 (-e_1) has been accepted
C18_Witness ==
    /\ pc = "line"
    /\ best_dir = 3
    /\ last_call.by = "line"
    /\ Len(route) >= 3
    /\ Last(route) = last_call.x

\* the lowest objective among the ok neighbours of the scan
ScanBest == CHOOSE v \in {scan_objs[i] : i \in DOMAIN scan_objs} :
                \A i \in DOMAIN scan_objs : v <= scan_objs[i]

\* C19 as stated: when an improving scan has two or more ok neighbours at the
\* lowest objective of the scan, the returned neighbour is the one of them with
\* the lowest direction id.
C19_TieAtBestReturnsLowestId ==
    (/\ ScanReturns
     /\ improve
     /\ Cardinality({i \in DOMAIN scan_objs : scan_objs[i] = ScanBest}) >= 2) =>
        /\ scan_objs[best_dir] = ScanBest
        /\ \A i \in DOMAIN scan_objs : scan_objs[i] = ScanBest => best_dir <= i

\* C19, amended: the neighbours are solved in ascending direction id and a
\* neighbour replaces the running best only when it is ok and lower than it by
\* more than the tolerance; so among the ok neighbours whose objective equals
\* that of the returned neighbour (the final fmin), the returned one has the
\* lowest direction id.
C19_TieAtReturnedValueReturnsLowestId ==
    /\ [](ScanReturns /\ improve =>
             /\ best_dir \in DOMAIN scan_objs
             /\ scan_objs[best_dir] = fmin
             /\ \A i \in DOMAIN scan_objs : scan_objs[i] = fmin => best_dir <= i)
    /\ [][(pc = "scan" /\ last_call'.by = "explore") =>
             \E i \in DOMAIN neighbors :
                /\ evaluated' = evaluated \cup {i}
                /\ \A k \in evaluated : k < i
                /\ last_call'.x = neighbors[i]
                /\ best_dir' # best_dir =>
                      /\ best_dir' = i
                      /\ last_call'.status = "ok"
                      /\ last_call'.obj + Tol < fmin]_vars

\* a scan returns direction 1 although direction 2 or higher reached the same
\* objective
C19_Witness ==
    /\ ScanReturns
    /\ improve
    /\ best_dir = 1
    /\ \E i \in DOMAIN scan_objs : i > 1 /\ scan_objs[i] = fmin

\* the candidate of direction i (0 is the start itself) of a my_neighbors call:
\* the start moved by +1 in coordinate i, or by -1 in coordinate i - n
MnCandidate(i) ==
    LET n == Len(mn_args.start)
    IN [j \in 1..n |-> mn_args.start[j]
                        + (IF i = j THEN 1 ELSE 0) - (IF i = j + n THEN 1 ELSE 0)]

\* the candidates of a my_neighbors call that lie inside the box
MnInBounds ==
    {i \in 0..(2 * Len(mn_args.start)) :
        \A j \in 1..Len(mn_args.start) :
            /\ MnCandidate(i)[j] >= mn_args.min_allowed[j]
            /\ MnCandidate(i)[j] <= mn_args.max_allowed[j]}

\* C20: with optimize and cheating both on, my_neighbors returns exactly the
\* in-bounds candidates with x2 <= x1 (it removes exactly those with
\* x2 - x1 > 0, whatever the other coordinates are); with optimize on and
\* cheating off it returns every in-bounds candidate.
C20_CheatingFilter ==
    (mn_pc = "done" /\ mn_args.optimize) =>
        /\ DOMAIN mn_out =
              IF mn_args.cheating
              THEN {i \in MnInBounds : MnCandidate(i)[2] <= MnCandidate(i)[1]}
              ELSE MnInBounds
        /\ \A i \in DOMAIN mn_out : mn_out[i] = MnCandidate(i)

\* a three-variable call with cheating on in which x3 > x1 for a kept point and
\* a point with x2 > x1 was removed
C20_Witness ==
    /\ mn_pc = "done"
    /\ mn_args.optimize
    /\ mn_args.cheating
    /\ mn_args.start = <<2, 2, 3>>
    /\ {0, 1, 5, 6} \subseteq DOMAIN mn_out
    /\ 2 \notin DOMAIN mn_out
    /\ 4 \notin DOMAIN mn_out

\* get_external_information has returned its four results
Scanned == ref_pc \notin {"idle", "scan", "scan_raised"}

\* the two fixing loops of external_ref have run
LoopsDone == ref_pc \in {"fixed_false", "fixed_dependent", "fixed_disjuncts",
                          "returned", "ext_raised"}

\* the number of external variables that come before entry i
SlotsBefore(i) ==
    LET RECURSIVE Upto(_)
        Upto(q) == IF q = 0 THEN 0 ELSE reformulation_dict[q].exactly_number + Upto(q - 1)
    IN Upto(i - 1)

\* the value of x for repetition j (1-based) of entry i
SlotValue(i, j) == x_ext[SlotsBefore(i) + j]

\* the Boolean at ordered position x[p] - 1 of entry i, p the slot of repetition j
SlotBool(i, j) == reformulation_dict[i].Boolean_vars[SlotValue(i, j)]

\* every value of x is within lower_bounds .. upper_bounds
XWithinBounds ==
    /\ Len(x_ext) = Len(lower_bounds)
    /\ \A q \in 1..Len(x_ext) : lower_bounds[q] <= x_ext[q] /\ x_ext[q] <= upper_bounds[q]

\* the Booleans of entry i that are fixed True
TrueOf(i) ==
    {k \in 1..Len(reformulation_dict[i].Boolean_vars) :
        bstate[reformulation_dict[i].Boolean_vars[k]] = "True"}

\* C11 as stated: for x within the bounds, after the fixing loops every slot of
\* every entry has its Boolean at ordered position x[p]-1 fixed True, every
\* other Boolean of the entry is fixed False, and an entry with exactly_number
\* N has exactly N Booleans True.
C11_ExactlyNTrue ==
    (LoopsDone /\ XWithinBounds) =>
        \A i \in 1..Len(reformulation_dict) :
            LET e == reformulation_dict[i] IN
            /\ \A j \in 1..e.exactly_number : bstate[SlotBool(i, j)] = "True"
            /\ \A k \in 1..Len(e.Boolean_vars) :
                   bstate[e.Boolean_vars[k]] \in {"True", "False"}
            /\ Cardinality(TrueOf(i)) = e.exactly_number

\* the dimension (1-based) of family f that Ext_Ref names as its reference
RefDim(f) ==
    CHOOSE d \in 1..Len(FamSets(f)) :
        \E q \in 1..Len(Ext_Ref) : Ext_Ref[q].fam = f /\ Ext_Ref[q].ref = FamSets(f)[d]

\* C11, amended: for x within the bounds, after the fixing loops a Boolean of
\* the map is fixed True exactly when it is the Boolean at ordered position
\* x[p]-1 (reference index Boolean_vars_ordered_index[x[p]-1]) for some slot p of
\* an entry, and every other Boolean of the map is fixed False; an entry that
\* shares no Boolean with another entry ends with as many True Booleans as its
\* slots hold distinct values, which is exactly_number only when they are
\* pairwise distinct.
C11_TrueExactlyTheSelected ==
    (LoopsDone /\ XWithinBounds) =>
        LET selected == {SlotBool(i, j) :
                            <<i, j>> \in {t \in (1..Len(reformulation_dict)) \X (1..MaxExactly) :
                                              t[2] <= reformulation_dict[t[1]].exactly_number}}
        IN \A i \in 1..Len(reformulation_dict) :
              LET e == reformulation_dict[i] IN
              /\ \A j \in 1..e.exactly_number :
                    /\ bstate[SlotBool(i, j)] = "True"
                    /\ SlotBool(i, j).idx[RefDim(SlotBool(i, j).fam)]
                          = e.Boolean_vars_ordered_index[SlotValue(i, j)]
              /\ \A k \in 1..Len(e.Boolean_vars) :
                    bstate[e.Boolean_vars[k]] =
                        IF e.Boolean_vars[k] \in selected THEN "True" ELSE "False"
              /\ (\A i2 \in 1..Len(reformulation_dict) \ {i} :
                      \A k \in 1..Len(e.Boolean_vars) : \A k2 \in 1..Len(reformulation_dict[i2].Boolean_vars) :
                          e.Boolean_vars[k] # reformulation_dict[i2].Boolean_vars[k2]) =>
                    Cardinality(TrueOf(i)) =
                        Cardinality({SlotValue(i, j) : j \in 1..e.exactly_number})

\* a map of two entries, the first with exactly_number 2, fixed by x = (1, 3, 2):
\* three Booleans of the map are True
C11_Witness ==
    /\ ref_pc = "returned"
    /\ Len(reformulation_dict) = 2
    /\ reformulation_dict[1].exactly_number = 2
    /\ x_ext = <<1, 3, 2>>
    /\ XWithinBounds
    /\ Cardinality(TrueOf(1)) = 2
    /\ Cardinality(TrueOf(2)) = 1
    /\ reformulation_dict[2].Boolean_vars[1] \notin
          {reformulation_dict[1].Boolean_vars[k] : k \in 1..3}

\* C12: after external_ref has returned, every Boolean of every entry of the
\* map is fixed to True or False and the target of every element of logic_expr
\* is fixed, whatever the external vector.
C12_NoLogicalVariableFree ==
    ref_pc = "returned" =>
        /\ \A i \in 1..Len(reformulation_dict) :
              \A k \in 1..Len(reformulation_dict[i].Boolean_vars) :
                 bstate[reformulation_dict[i].Boolean_vars[k]] \in {"True", "False"}
        /\ \A q \in 1..Len(logic_expr.list) :
              bstate[logic_expr.list[q].target] # "free"

\* external_ref returned for a vector above the upper bound, a map with an entry
\* and two dependent Booleans
C12_Witness ==
    /\ ref_pc = "returned"
    /\ Len(reformulation_dict) >= 1
    /\ Len(logic_expr.list) = 2
    /\ x_ext[1] > upper_bounds[1]

\* C14: number_of_external_variables is the sum of exactly_number over the
\* entries and the length of lower_bounds and of upper_bounds; the position of
\* repetition j of entry i (entries in key order, repetitions consecutive)
\* holds lower bound 1 and upper bound len(Boolean_vars) of entry i.
C14_FlattenedBounds ==
    Scanned =>
        /\ number_of_external_variables = SlotsBefore(Len(reformulation_dict) + 1)
        /\ number_of_external_variables = Len(lower_bounds)
        /\ number_of_external_variables = Len(upper_bounds)
        /\ \A i \in 1..Len(reformulation_dict) :
              \A j \in 1..reformulation_dict[i].exactly_number :
                 /\ lower_bounds[SlotsBefore(i) + j] = 1
                 /\ upper_bounds[SlotsBefore(i) + j]
                       = Len(reformulation_dict[i].Boolean_vars)

\* a scan that found an entry of three Booleans with exactly_number 2 and then
\* an entry of two Booleans
C14_Witness ==
    /\ ref_pc = "scanned"
    /\ number_of_external_variables = 3
    /\ upper_bounds = <<3, 3, 2>>

\* C15: in every entry Boolean_vars_ordered_index is non-decreasing, and
\* Boolean_vars[k] is the argument of the constraint whose index in the
\* reference dimension is Boolean_vars_ordered_index[k]: Boolean_vars holds the
\* arguments of its constraint, whatever their order there.
C15_EntriesSortedByReferenceIndex ==
    Scanned =>
        \A i \in 1..Len(reformulation_dict) :
            LET e == reformulation_dict[i]
                n == Len(e.Boolean_vars)
            IN /\ Len(e.Boolean_vars_ordered_index) = n
               /\ \A k \in 1..n : \A k2 \in k..n :
                     e.Boolean_vars_ordered_index[k] <= e.Boolean_vars_ordered_index[k2]
               /\ \A k \in 1..n :
                     e.Boolean_vars[k].idx[RefDim(e.Boolean_vars[k].fam)]
                         = e.Boolean_vars_ordered_index[k]
               /\ \E c \in 1..Len(lcons) :
                     /\ Len(lcons[c].args) = n
                     /\ {lcons[c].args[k] : k \in 1..n} = {e.Boolean_vars[k] : k \in 1..n}

\* the constraint exactly(., Y[3,1], Y[1,1], Y[2,1]) gave the entry Y[1,1],
\* Y[2,1], Y[3,1]
C15_Witness ==
    /\ ref_pc = "scanned"
    /\ lcons[1].args = <<Bool("Y", <<3, 1>>), Bool("Y", <<1, 1>>), Bool("Y", <<2, 1>>)>>
    /\ Len(reformulation_dict) >= 1
    /\ reformulation_dict[1].Boolean_vars
          = <<Bool("Y", <<1, 1>>), Bool("Y", <<2, 1>>), Bool("Y", <<3, 1>>)>>
    /\ reformulation_dict[1].Boolean_vars_ordered_index = <<1, 2, 3>>

\* the Booleans whose state the step just taken has changed
Changed == {b \in AllBools : bstate'[b] # bstate[b]}

\* the value element q of logic_expr has at its turn in the loop, when its
\* operand has one then: the operand was fixed by an earlier element of the
\* loop, or it keeps the state it had before the loop
ValueAtTurn(q) ==
    LET it == logic_expr.list[q]
        st == IF \E r \in 1..(q - 1) : logic_expr.list[r].target = it.var
              THEN bstate'[it.var] ELSE bstate[it.var]
    IN IF st \notin {"True", "False"} THEN "undefined"
       ELSE IF it.neg THEN (IF st = "True" THEN "False" ELSE "True")
       ELSE st

\* C21: external_ref takes its steps in this order and each step only does its
\* own work: (1) the Booleans selected by x go from free to True, (2) then the
\* Booleans of the map still free go to False and none stays free, (3) then
\* the targets of logic_expr, and only they, are fixed, each to the value its
\* expression has at its turn in the loop, (4) then the disjunct-fixing
\* transformation, (5) then the deactivation of trivial constraints and the
\* return; the last two change no Boolean of the map or of logic_expr.
C21_SideEffectOrder ==
    [][/\ ref_pc = "scanned" =>
             /\ ref_pc' = "fixed_true"
             /\ \A b \in Changed : bstate[b] = "free" /\ bstate'[b] = "True"
       /\ ref_pc = "fixed_true" =>
             /\ ref_pc' = "fixed_false"
             /\ \A b \in Changed : bstate[b] = "free" /\ bstate'[b] = "False"
             /\ \A i \in 1..Len(reformulation_dict) :
                   \A k \in 1..Len(reformulation_dict[i].Boolean_vars) :
                      bstate'[reformulation_dict[i].Boolean_vars[k]] # "free"
       /\ ref_pc = "fixed_false" =>
             /\ ref_pc' \in {"fixed_dependent", "ext_raised"}
             /\ \A b \in Changed :
                   \E q \in 1..Len(logic_expr.list) : logic_expr.list[q].target = b
             /\ ref_pc' = "fixed_dependent" =>
                   \A q \in 1..Len(logic_expr.list) :
                      /\ bstate'[logic_expr.list[q].target] # "free"
                      /\ ValueAtTurn(q) # "undefined" =>
                            bstate'[logic_expr.list[q].target] = ValueAtTurn(q)
       /\ ref_pc = "fixed_dependent" => ref_pc' = "fixed_disjuncts" /\ Changed = {}
       /\ ref_pc = "fixed_disjuncts" => ref_pc' = "returned" /\ Changed = {}
       /\ ref_pc \in {"returned", "ext_raised"} => ref_pc' = ref_pc]_vars

\* external_ref returned after fixing W[1] from Y[1,1] = True and then W[2]
\* from ~W[1]
C21_Witness ==
    /\ ref_pc = "returned"
    /\ Len(reformulation_dict) >= 1
    /\ Len(logic_expr.list) = 2
    /\ logic_expr.list[2].var = Bool("W", <<1>>)
    /\ bstate[Bool("Y", <<1, 1>>)] = "True"
    /\ bstate[Bool("W", <<1>>)] = "True"
    /\ bstate[Bool("W", <<2>>)] = "False"

\* the exactly constraint c is eligible: its arguments all belong to one family
\* of Ext_Ref and carry the same index on every dimension of that family whose
\* Set is not the reference Set
Eligible(c) ==
    \E q \in 1..Len(Ext_Ref) :
        /\ \A k \in 1..Len(c.args) : c.args[k].fam = Ext_Ref[q].fam
        /\ \A d \in 1..Len(FamSets(Ext_Ref[q].fam)) :
              FamSets(Ext_Ref[q].fam)[d] # Ext_Ref[q].ref =>
                 \A k \in 1..Len(c.args) : c.args[k].idx[d] = c.args[1].idx[d]

\* the eligible constraints of the model, in model order
EligibleCons == SelectSeq(lcons, Eligible)

\* C22: get_external_information returns, and its entries are those of the
\* eligible constraints, one each and in their order (exactly_number and
\* arguments of the constraint); a constraint that mixes families or whose
\* arguments differ on a non-reference dimension adds nothing and leaves the
\* entries, the count and the bounds of the others as they are without it.
C22_EntryIffEligible ==
    ref_pc \notin {"idle", "scan"} =>
        /\ ref_pc # "scan_raised"
        /\ Len(reformulation_dict) = Len(EligibleCons)
        /\ \A i \in 1..Len(reformulation_dict) :
              /\ reformulation_dict[i].exactly_number = EligibleCons[i].n
              /\ {reformulation_dict[i].Boolean_vars[k] :
                      k \in 1..Len(reformulation_dict[i].Boolean_vars)}
                    = {EligibleCons[i].args[k] : k \in 1..Len(EligibleCons[i].args)}
        /\ number_of_external_variables
              = SumTo([i \in 1..Len(EligibleCons) |-> EligibleCons[i].n], Len(EligibleCons))
        /\ upper_bounds = Flatten([i \in 1..Len(EligibleCons) |->
                                      [exactly_number |-> EligibleCons[i].n,
                                       ub |-> Len(EligibleCons[i].args)]], "ub")

\* C23: for every family of Ext_Ref, ref_index holds exactly the dimension
\* positions whose Set is the reference Set of the family and no_ref_index every
\* other position, whatever other families Ext_Ref holds.
C23_ClassificationByName ==
    ref_pc \notin {"idle", "scan"} =>
        \A p \in 1..Len(Ext_Ref) :
            LET dims == 0..(Len(FamSets(Ext_Ref[p].fam)) - 1) IN
            /\ {ref_index[p][q] : q \in 1..Len(ref_index[p])}
                  = {d \in dims : FamSets(Ext_Ref[p].fam)[d + 1] = Ext_Ref[p].ref}
            /\ {no_ref_index[p][q] : q \in 1..Len(no_ref_index[p])}
                  = {d \in dims : FamSets(Ext_Ref[p].fam)[d + 1] # Ext_Ref[p].ref}

\* C24: when a family of Ext_Ref has no _sets to introspect, the call of
\* get_external_information does not raise.
C24_FallbackNeverRaises ==
    (\E p \in 1..Len(Ext_Ref) : ~HasSets(Ext_Ref[p].fam)) => ref_pc # "scan_raised"

\* C25: every vector solved in EXPLORE or LINE-SEARCH and every vector of the
\* route satisfies x2 <= x1.
C25_AsymmetryEverywhere ==
    /\ SearchCall => last_call.x[2] <= last_call.x[1]
    /\ \A q \in 1..Len(route) : route[q][2] <= route[q][1]

\* C26: the incumbent handed to an EXPLORE scan is inside the box and has
\* x2 <= x1, the dict returned by my_neighbors holds it under key 0, and
\* evaluate_neighbors never fails reading ext_vars[0].
C26_StartAlwaysKept ==
    /\ pc = "evaluate" =>
          /\ InBox(ext_var)
          /\ ext_var[2] <= ext_var[1]
          /\ 0 \in DOMAIN neighbors
          /\ neighbors[0] = ext_var
    /\ pc # "crashed"

\* the in-box neighbours of the incumbent with x2 <= x1, by direction id
FilteredNeighbourIds ==
    {i \in 1..4 : /\ InBox([j \in 1..2 |-> ext_var[j] + DirVec(i)[j]])
                  /\ ext_var[2] + DirVec(i)[2] <= ext_var[1] + DirVec(i)[1]}

\* C28: when dsda is done, the last scan has solved every neighbour of the
\* final incumbent that is inside the box and has x2 <= x1, and none of them
\* had status ok with an objective below the final fmin by more than the
\* tolerance (with a solve outcome that is a function of the vector, these are
\* the outcomes of those neighbours).
C28_DoneIsLocalOptimum ==
    pc = "done" =>
        /\ ext_var = Last(route)
        /\ best_var = ext_var
        /\ evaluated = FilteredNeighbourIds
        /\ scan_min = -1 \/ ~(scan_min + Tol < fmin)

\* dsda is done after at least one move, at a point with three filtered
\* neighbours one of which is lower than fmin, within the tolerance
C28_Witness ==
    /\ pc = "done"
    /\ Len(route) >= 2
    /\ Cardinality(evaluated) >= 3
    /\ scan_min # -1
    /\ scan_min < fmin

\* C27: every vector of the route and every vector dsda(NT, '2') has solved
\* has both coordinates in 1..NT.
C27_VectorsWithinNT ==
    /\ \A q \in 1..Len(route) : \A j \in 1..2 : route[q][j] \in 1..nt_arg
    /\ last_call.by # "none" => \A j \in 1..2 : last_call.x[j] \in 1..nt_arg

\* the logic constraints of the reactor model on the fixed indicators
cstr_if_recycle ==
    \A n \in 1..fx_NT : YR_is_recycle[n] <= YP_is_cstr[n]

one_unreacted_feed == SumTo(YF, fx_NT) = 1

one_recycle == SumTo(YR_is_recycle, fx_NT) = 1

unit_in_n ==
    \A n \in 1..fx_NT : YP_is_cstr[n] = 1 - (SumTo(YF, n) - YF[n])

\* C29: once fnlp_gdp(NT, x) has fixed the indicators, with x1 and x2 in
\* 1..NT: the feed is at unit n iff n = x1, the recycle at unit n iff
\* n = x2, unit n is a CSTR iff n <= x1 and a bypass otherwise, and the
\* four logic constraints hold together if and only if x2 <= x1.
C29_LogicHoldsIffRecycleNotAfterFeed ==
    fx_pc = "fixed" =>
        /\ \A n \in 1..fx_NT :
              /\ YF[n] = (IF n = fx_x[1] THEN 1 ELSE 0)
              /\ YR_is_recycle[n] = (IF n = fx_x[2] THEN 1 ELSE 0)
              /\ YR_is_not_recycle[n] = 1 - YR_is_recycle[n]
              /\ YP_is_cstr[n] = (IF n <= fx_x[1] THEN 1 ELSE 0)
              /\ YP_is_bypass[n] = 1 - YP_is_cstr[n]
        /\ (cstr_if_recycle /\ one_unreacted_feed /\ one_recycle /\ unit_in_n)
              <=> fx_x[2] <= fx_x[1]

\* fnlp_gdp(5, [3, 2]) has fixed its indicators and the logic constraints hold
C29_Witness ==
    /\ fx_pc = "fixed"
    /\ fx_NT = 5
    /\ fx_x = <<3, 2>>
    /\ YP_is_cstr = <<1, 1, 1, 0, 0>>
    /\ YR_is_recycle = <<0, 1, 0, 0, 0>>
    /\ cstr_if_recycle /\ one_unreacted_feed /\ one_recycle /\ unit_in_n

====
